---- MODULE Spec2Model ----
(* Model of the forecasting core of projet_git/dashboard.py:                *)
(* create_features, prepare_prediction_data, train_model_and_predict,       *)
(* calculate_volatility, calculate_var and their caller update_dashboard.   *)
(* Floating-point columns are modelled as exact rationals [n |-> , d |-> ]; *)
(* NaN is 0/0, +-inf is +-1/0. A standard deviation is carried by its       *)
(* square ([sq |-> variance]), so that no irrational number is needed.      *)
EXTENDS Integers, Sequences, FiniteSets, TLC

VARIABLES
    series,            \* the loaded DataFrame: Seq of [Timestamp, Price]
    call,              \* the entry point being run
    pc,                \* position inside the entry point
    df_features,       \* feature table (create_features / prepare_prediction_data)
    X,                 \* training rows (X and y of prepare_prediction_data)
    X_recent,          \* <<anchor row>> or <<>>
    heap,              \* RandomForestRegressor objects: id -> fit state
    model,             \* the local variable `model`: an object id, 0 = unbound
    current_data,      \* feature vector of the forecast loop
    current_timestamp, \* timestamp of the forecast loop
    i,                 \* loop counter of the forecast loop
    future,            \* future_timestamps / future_predictions, zipped
    split,             \* train_test_split result
    result,            \* return value of train_model_and_predict
    volatility,        \* return value of calculate_volatility
    var_95,            \* return value of calculate_var(confidence=0.95)
    var_99,            \* return value of calculate_var(confidence=0.99)
    feature_table,     \* return value of a direct call of create_features
    raised,            \* the exception that ended the call, "none" if none
    outputs            \* what update_dashboard returns

vars == <<series, call, pc, df_features, X, X_recent, heap, model, current_data,
          current_timestamp, i, future, split, result, volatility, var_95,
          var_99, feature_table, raised, outputs>>

-----------------------------------------------------------------------------
(* Program constants *)

MAX_DATA_POINTS == 100
PREDICTION_HOURS == 24
MinTrainOneLess == 50 - 1
MIN_TRAIN_POINTS == 50
MAX_LAG == 24
RISK_WINDOW == 14
DAYS_PER_YEAR == 365
N_ESTIMATORS == 100
RANDOM_STATE == 42

(* Bounds of the model *)

MaxLen == 52
MaxSpike == 2
MaxFeatLen == 30

-----------------------------------------------------------------------------
(* Exact rational arithmetic standing for float64 columns *)

Abs(a) == IF a < 0 THEN -a ELSE a

RECURSIVE GCD(_, _)
GCD(a, b) == IF b = 0 THEN a ELSE GCD(b, a % b)

Sign(a) == IF a > 0 THEN 1 ELSE IF a < 0 THEN -1 ELSE 0

\* the normalised rational n/d; d = 0 gives NaN (0/0) or a signed infinity
Rat(n, d) ==
    IF d = 0 THEN [n |-> Sign(n), d |-> 0]
    ELSE LET g == GCD(Abs(n), Abs(d))
             s == IF d < 0 THEN -1 ELSE 1
         IN  [n |-> s * (n \div g), d |-> s * (d \div g)]

NaN == [n |-> 0, d |-> 0]
Zero == [n |-> 0, d |-> 1]
IntRat(a) == [n |-> a, d |-> 1]

IsNaN(x) == x.d = 0 /\ x.n = 0
IsFinite(x) == x.d > 0

RatAdd(x, y) ==
    IF IsNaN(x) \/ IsNaN(y) THEN NaN
    ELSE IF x.d = 0 /\ y.d = 0 THEN (IF x.n = y.n THEN x ELSE NaN)
    ELSE IF x.d = 0 THEN x
    ELSE IF y.d = 0 THEN y
    ELSE Rat(x.n * y.d + y.n * x.d, x.d * y.d)

RatNeg(x) == [n |-> -x.n, d |-> x.d]
RatSub(x, y) == RatAdd(x, RatNeg(y))

RatMul(x, y) ==
    IF IsNaN(x) \/ IsNaN(y) THEN NaN
    ELSE IF x.d = 0 \/ y.d = 0
         THEN (IF x.n = 0 \/ y.n = 0 THEN NaN ELSE [n |-> Sign(x.n) * Sign(y.n), d |-> 0])
    ELSE Rat(x.n * y.n, x.d * y.d)

\* float division: x / 0 is +-inf, 0 / 0 is NaN
RatDiv(x, y) ==
    IF IsNaN(x) \/ IsNaN(y) THEN NaN
    ELSE IF y.d = 0 THEN (IF x.d = 0 THEN NaN ELSE Zero)
    ELSE IF y.n = 0 THEN [n |-> Sign(x.n), d |-> 0]
    ELSE IF x.d = 0 THEN [n |-> Sign(x.n) * Sign(y.n), d |-> 0]
    ELSE Rat(x.n * y.d, x.d * y.n)

RatAbs(x) == [n |-> Abs(x.n), d |-> x.d]

\* x < y on finite rationals
RatLess(x, y) == x.n * y.d < y.n * x.d

RECURSIVE RatSum(_)
RatSum(s) == IF s = <<>> THEN Zero ELSE RatAdd(Head(s), RatSum(Tail(s)))

Min(a, b) == IF a < b THEN a ELSE b
Max(a, b) == IF a > b THEN a ELSE b

-----------------------------------------------------------------------------
(* Timestamps are minutes since 1970-01-01 00:00; the .dt accessors of      *)
(* create_features are the proleptic Gregorian calendar fields.             *)

MINUTES_PER_HOUR == 60
MINUTES_PER_DAY == 24 * MINUTES_PER_HOUR

IsLeap(yr) == (yr % 4 = 0 /\ yr % 100 # 0) \/ yr % 400 = 0

\* days from 1970-01-01 to January 1st of yr
DaysBeforeYear(yr) ==
    (yr - 1970) * 365 + (yr - 1969) \div 4 - (yr - 1901) \div 100 + (yr - 1601) \div 400

DaysInMonth(yr, m) ==
    IF m = 2 THEN (IF IsLeap(yr) THEN 29 ELSE 28)
    ELSE IF m \in {4, 6, 9, 11} THEN 30 ELSE 31

RECURSIVE MonthOfDoy(_, _, _)
MonthOfDoy(yr, doy, m) ==
    IF doy <= DaysInMonth(yr, m) THEN m ELSE MonthOfDoy(yr, doy - DaysInMonth(yr, m), m + 1)

RECURSIVE DayOfDoy(_, _, _)
DayOfDoy(yr, doy, m) ==
    IF doy <= DaysInMonth(yr, m) THEN doy ELSE DayOfDoy(yr, doy - DaysInMonth(yr, m), m + 1)

DayIndex(ts) == ts \div MINUTES_PER_DAY

\* the year of day index days: 400 years hold 146097 days
YearOfDay(days) ==
    IF days >= DaysBeforeYear(1970 + (days * 400) \div 146097 + 1)
    THEN 1970 + (days * 400) \div 146097 + 1
    ELSE IF days >= DaysBeforeYear(1970 + (days * 400) \div 146097)
    THEN 1970 + (days * 400) \div 146097
    ELSE 1970 + (days * 400) \div 146097 - 1

dt_hour(ts) == (ts % MINUTES_PER_DAY) \div MINUTES_PER_HOUR
\* Monday = 0; 1970-01-01 was a Thursday
dt_dayofweek(ts) == (DayIndex(ts) + 3) % 7
dt_year(ts) == YearOfDay(DayIndex(ts))
dt_dayofyear(ts) == DayIndex(ts) - DaysBeforeYear(dt_year(ts)) + 1
dt_month(ts) == MonthOfDoy(dt_year(ts), dt_dayofyear(ts), 1)
dt_day(ts) == DayOfDoy(dt_year(ts), dt_dayofyear(ts), 1)
dt_quarter(ts) == (dt_month(ts) - 1) \div 3 + 1

\* ISO-8601 week number
WeekdayOfJan1(yr) == (DaysBeforeYear(yr) + 3) % 7
WeeksInYear(yr) ==
    IF WeekdayOfJan1(yr) = 3 \/ (IsLeap(yr) /\ WeekdayOfJan1(yr) = 2) THEN 53 ELSE 52
IsoWeekOf(yr, doy, dow) ==
    IF (doy - (dow + 1) + 10) \div 7 < 1 THEN WeeksInYear(yr - 1)
    ELSE IF (doy - (dow + 1) + 10) \div 7 > WeeksInYear(yr) THEN 1
    ELSE (doy - (dow + 1) + 10) \div 7
dt_isoweek(ts) == IsoWeekOf(dt_year(ts), dt_dayofyear(ts), dt_dayofweek(ts))

\* a step of one day instead of one hour
AddOneDay(ts) == ts + MINUTES_PER_DAY

\* Timestamp + pd.Timedelta(hours=1)
AddOneHour(ts) == ts + MINUTES_PER_HOUR

-----------------------------------------------------------------------------
(* pandas column operations used by the program. A column is a sequence of  *)
(* rationals; position k of the sequence is DataFrame position k - 1.       *)

PriceCol(df) == [k \in 1..Len(df) |-> IntRat(df[k].Price)]

\* a shift that reads the row itself for lag 1
ShiftOneShort(col, lag, k) ==
    IF k - lag + 1 >= 1 /\ k - lag + 1 <= Len(col) /\ k - lag >= 1 THEN col[k - lag + 1] ELSE NaN

\* Series.shift(lag), lag > 0: the value lag rows back, NaN at the head
Shift(col, lag, k) == IF k - lag >= 1 /\ k - lag <= Len(col) THEN col[k - lag] ELSE NaN

\* a change taken relative to the current value
PctChangeOverCurrent(col, periods, k) ==
    IF k - periods < 1 THEN NaN
    ELSE RatSub(IntRat(1), RatDiv(col[k - periods], col[k]))

\* Series.pct_change(periods): col[k] / col[k - periods] - 1
PctChange(col, periods, k) ==
    IF k - periods < 1 THEN NaN
    ELSE RatSub(RatDiv(col[k], col[k - periods]), IntRat(1))

\* the non-NaN observations of the window of w rows ending at row k
WindowObs(col, w, k) ==
    SelectSeq(SubSeq(col, Max(1, k - w + 1), k), LAMBDA v : ~IsNaN(v))

\* Series.rolling(window=w).mean() at row k (min_periods = w)
MeanOf(obs) == RatDiv(RatSum(obs), IntRat(Len(obs)))

RollingMeanOf(obs, w) == IF Len(obs) < w THEN NaN ELSE MeanOf(obs)

RollingMean(col, w, k) == RollingMeanOf(WindowObs(col, w, k), w)

\* sample variance (ddof = 1) of a sequence of rationals
Square(x) == RatMul(x, x)

SquaredDevs(obs, mean) == [j \in 1..Len(obs) |-> Square(RatSub(obs[j], mean))]

SampleVar(obs) ==
    IF Len(obs) < 2 THEN NaN
    ELSE RatDiv(RatSum(SquaredDevs(obs, MeanOf(obs))), IntRat(Len(obs) - 1))

\* Series.rolling(window=w).std() at row k (min_periods = w), as [sq |-> variance]
RollingStdOf(obs, w) == IF Len(obs) < w THEN [sq |-> NaN] ELSE [sq |-> SampleVar(obs)]

RollingStd(col, w, k) == RollingStdOf(WindowObs(col, w, k), w)

\* Series.dropna()
DropNaCol(col) == SelectSeq(col, LAMBDA v : ~IsNaN(v))

\* DataFrame.tail(k)
TailRows(df, k) == IF Len(df) <= k THEN df ELSE SubSeq(df, Len(df) - k + 1, Len(df))

RECURSIVE Insert(_, _)
Insert(v, sorted) ==
    IF sorted = <<>> THEN <<v>>
    ELSE IF RatLess(Head(sorted), v) THEN <<Head(sorted)>> \o Insert(v, Tail(sorted))
    ELSE <<v>> \o sorted

RECURSIVE SortCol(_)
SortCol(col) == IF col = <<>> THEN <<>> ELSE Insert(Head(col), SortCol(Tail(col)))

\* np.percentile(col, q) with linear interpolation, q a rational in [0, 100]
Interpolate(sorted, q) ==
    LET cnt == Len(sorted)
        \* virtual index (cnt - 1) * q / 100, 0-based
        num == (cnt - 1) * q.n
        den == 100 * q.d
        lo == num \div den
        hi == Min(lo + 1, cnt - 1)
        frac == Rat(num - lo * den, den)
    IN  RatAdd(sorted[lo + 1], RatMul(frac, RatSub(sorted[hi + 1], sorted[lo + 1])))

Percentile(col, q) == Interpolate(SortCol(col), q)

-----------------------------------------------------------------------------
(* create_features *)

\* a lag range one too long
LagsOneTooMany == 1..(MAX_LAG + 1)

\* range(1, 25)
LAGS == 1..MAX_LAG

\* one row of the frame built by create_features, before dropna;
\* idx is the 0-based position of the row in the input frame
FeatureRow(df, col, k, ts) ==
    [ idx |-> k - 1,
      Timestamp |-> ts,
      Price |-> df[k].Price,
      hour |-> dt_hour(ts),
      dayofweek |-> dt_dayofweek(ts),
      quarter |-> dt_quarter(ts),
      month |-> dt_month(ts),
      year |-> dt_year(ts),
      dayofyear |-> dt_dayofyear(ts),
      dayofmonth |-> dt_day(ts),
      weekofyear |-> dt_isoweek(ts),
      lag |-> [l \in LAGS |-> Shift(col, l, k)],
      rolling_mean_6h |-> RollingMean(col, 6, k),
      rolling_mean_12h |-> RollingMean(col, 12, k),
      rolling_mean_24h |-> RollingMean(col, 24, k),
      volatility_24h |-> RollingStd(col, 24, k),
      price_change_1h |-> PctChange(col, 1, k),
      price_change_12h |-> PctChange(col, 12, k),
      price_change_24h |-> PctChange(col, 24, k) ]

AllRows(df, col) == [k \in 1..Len(df) |-> FeatureRow(df, col, k, df[k].Timestamp)]

\* the float cells of a row, the ones dropna looks at
FloatCells(row) ==
    { row.lag[l] : l \in DOMAIN row.lag }
    \cup { row.rolling_mean_6h, row.rolling_mean_12h, row.rolling_mean_24h,
           row.volatility_24h.sq,
           row.price_change_1h, row.price_change_12h, row.price_change_24h }

RowHasNaN(row) == \E v \in FloatCells(row) : IsNaN(v)

\* the dropna left out
KeepAllRows(rows) == rows

\* df.dropna(): keeps the rows without any NaN, in order
DropNaRows(rows) == SelectSeq(rows, LAMBDA r : ~RowHasNaN(r))

create_features(df) == DropNaRows(AllRows(df, PriceCol(df)))

-----------------------------------------------------------------------------
(* prepare_prediction_data *)

FEATURES == << "hour", "dayofweek", "quarter", "month", "dayofyear", "dayofmonth",
               "lag_1h", "lag_12h", "lag_24h",
               "rolling_mean_6h", "rolling_mean_12h", "rolling_mean_24h",
               "volatility_24h", "price_change_1h", "price_change_12h",
               "price_change_24h" >>

\* row[features]: the 16 model inputs of a row
FeatureVector(row) ==
    [ hour |-> row.hour, dayofweek |-> row.dayofweek, quarter |-> row.quarter,
      month |-> row.month, dayofyear |-> row.dayofyear, dayofmonth |-> row.dayofmonth,
      lag_1h |-> row.lag[1], lag_12h |-> row.lag[12], lag_24h |-> row.lag[24],
      rolling_mean_6h |-> row.rolling_mean_6h,
      rolling_mean_12h |-> row.rolling_mean_12h,
      rolling_mean_24h |-> row.rolling_mean_24h,
      volatility_24h |-> row.volatility_24h,
      price_change_1h |-> row.price_change_1h,
      price_change_12h |-> row.price_change_12h,
      price_change_24h |-> row.price_change_24h ]

\* the look-ahead of the target column, shift(-24)
TARGET_AHEAD == 24

\* a target taken one row too far ahead
WithTargetOneMore(rows) ==
    [ j \in 1..Len(rows) |->
        [ row |-> rows[j],
          target |-> IF j + TARGET_AHEAD + 1 <= Len(rows)
                     THEN IntRat(rows[j + TARGET_AHEAD + 1].Price) ELSE NaN ] ]

\* df_features['target'] = df_features['Price'].shift(-24)
WithTarget(rows) ==
    [ j \in 1..Len(rows) |->
        [ row |-> rows[j],
          target |-> IF j + TARGET_AHEAD <= Len(rows)
                     THEN IntRat(rows[j + TARGET_AHEAD].Price) ELSE NaN ] ]

\* df_features.iloc[-1:]
RecentRows(rows) == IF rows = <<>> THEN <<>> ELSE <<rows[Len(rows)]>>

\* the first row cut off as well, iloc[1:-1]
TrainRowsDropFirst(rows) ==
    SelectSeq(SubSeq(rows, 2, Len(rows) - 1),
              LAMBDA r : ~RowHasNaN(r.row) /\ ~IsNaN(r.target))

\* df_features.iloc[:-1].dropna()
TrainRows(rows) ==
    SelectSeq(SubSeq(rows, 1, Len(rows) - 1),
              LAMBDA r : ~RowHasNaN(r.row) /\ ~IsNaN(r.target))

NoPrepared == [ok |-> FALSE, X |-> <<>>, X_recent |-> <<>>, last_timestamp |-> 0,
               df_features |-> <<>>]

\* lines 134-156, given df_features with its target column
SplitRecent(feats, df_recent, df_train) ==
    IF df_train = <<>> THEN NoPrepared
    ELSE [ ok |-> TRUE,
           X |-> df_train,
           X_recent |-> df_recent,
           last_timestamp |-> df_recent[1].row.Timestamp,
           df_features |-> feats ]

Prepared(feats) == SplitRecent(feats, RecentRows(feats), TrainRows(feats))

prepare_prediction_data(df) ==
    IF Len(df) < MIN_TRAIN_POINTS THEN NoPrepared
    ELSE Prepared(WithTarget(create_features(df)))

-----------------------------------------------------------------------------
(* calculate_volatility and calculate_var *)

\* df['return'] = df['Price'].pct_change()
ReturnsOf(col) == [k \in 1..Len(col) |-> PctChange(col, 1, k)]
Returns(df) == ReturnsOf(PriceCol(df))

\* the value returned when the function bails out: the int 0
ZeroVol == [sq |-> Zero]

\* volatility.iloc[-1] * np.sqrt(365), squared
Annualize(vol) == [sq |-> RatMul(vol.sq, IntRat(DAYS_PER_YEAR))]

\* the guard on thin data left out
VolatilityNoGuard(df, window) ==
    Annualize(RollingStd(Returns(df), Min(window, Len(df)), Len(df)))

calculate_volatility(df, window) ==
    IF Len(df) < 2 THEN ZeroVol
    ELSE Annualize(RollingStd(Returns(df), Min(window, Len(df)), Len(df)))

\* 100 * (1 - confidence), confidence given in percent; exact, where the
\* float expression is off by a few units in the last place
TailPercent(confidence) == Rat(100 * (100 - confidence), 100)

\* lines 255-263, given the returns without their NaN
HistoricalVar(returns, confidence) ==
    IF Len(returns) < 2 THEN Zero
    ELSE RatAbs(RatMul(Percentile(returns, TailPercent(confidence)), IntRat(100)))

calculate_var(df, confidence, window) ==
    IF Len(df) < window THEN Zero
    ELSE HistoricalVar(DropNaCol(Returns(df)), confidence)

-----------------------------------------------------------------------------
(* train_test_split and the RandomForestRegressor objects *)

\* n_test = ceil(test_size * n_samples) with test_size = 0.2; the float
\* product 0.2 * m is exact for the m <= 5 training rows the inputs give
TestSize(m) == (m + 4) \div 5

\* the splits train_test_split(X, y, test_size=0.2, random_state=42) may return:
\* the shuffle is numpy's, so every choice of the test rows is allowed
Splits(rows) ==
    LET ids == { rows[j].row.idx : j \in 1..Len(rows) }
    IN  { [train |-> ids \ t, test |-> t] :
            t \in { t \in SUBSET ids : Cardinality(t) = TestSize(Len(rows)) } }

NoSplit == [train |-> {}, test |-> {}]

\* RandomForestRegressor(n_estimators=100, random_state=42), not fitted yet
NewModel == [n_estimators |-> N_ESTIMATORS, random_state |-> RANDOM_STATE,
             fitted |-> FALSE, fit |-> {}]

\* model.fit(X, y): the object now holds the fit on the rows ids
Fitted(m, ids) == [m EXCEPT !.fitted = TRUE, !.fit = ids]

RowIds(rows) == { rows[j].row.idx : j \in 1..Len(rows) }

\* a second RandomForestRegressor constructed for the evaluation
RefitFresh(hp, mdl) == [heap |-> Append(hp, NewModel), model |-> Len(hp) + 1]

\* the object line 214 fits on the train split, and the heap it lives in:
\* the object `model` is bound to, no new one is constructed
RefitTarget(hp, mdl) == [heap |-> hp, model |-> mdl]

\* model.predict(x): a value fixed by the object's fit and the input vector
Predict(hp, mdl, x) == [model |-> mdl, fit |-> hp[mdl].fit, x |-> x]

-----------------------------------------------------------------------------
(* Inputs *)

Prices == {1, 2}
Steps == {60, 25}
\* 2024-12-29 12:00
Starts == {20086 * MINUTES_PER_DAY + 12 * MINUTES_PER_HOUR}

Shapes ==
    [kind : {"const"}, lo : Prices, hi : {1}, at : {1}]
    \cup { sh \in [kind : {"alt", "head", "tail"}, lo : Prices, hi : Prices, at : 1..MaxSpike] :
             sh.lo # sh.hi /\ (sh.kind = "alt" => sh.at = 1) }

PriceAt(sh, n, k) ==
    CASE sh.kind = "const" -> sh.lo
      [] sh.kind = "alt" -> IF k % 2 = 1 THEN sh.lo ELSE sh.hi
      [] sh.kind = "head" -> IF k = sh.at THEN sh.hi ELSE sh.lo
      [] sh.kind = "tail" -> IF k = n + 1 - sh.at THEN sh.hi ELSE sh.lo

\* a frame as load_data returns it: no NaN, sorted by Timestamp
SeriesOf(n, sh, t0, step) ==
    [k \in 1..n |-> [Timestamp |-> t0 + (k - 1) * step, Price |-> PriceAt(sh, n, k)]]

Calls == {"create_features", "compute_risk", "train_model_and_predict", "update_dashboard"}

EntryPc(c) ==
    CASE c = "create_features" -> "features"
      [] c = "compute_risk" -> "volatility"
      [] c = "train_model_and_predict" -> "train"
      [] c = "update_dashboard" -> "load"

Pending == [status |-> "pending", predictions_df |-> <<>>, eval_metrics |-> <<>>]
None == [status |-> "None", predictions_df |-> <<>>, eval_metrics |-> <<>>]
NotCalled == [called |-> FALSE, value |-> <<>>]
Returned(v) == [called |-> TRUE, value |-> v]

\* the longest series an entry point is given
MaxInput(c) == IF c = "create_features" THEN MaxFeatLen ELSE MaxLen

Init ==
    /\ call \in Calls
    /\ \E n \in 0..MaxInput(call), sh \in Shapes, t0 \in Starts, step \in Steps :
           series = SeriesOf(n, sh, t0, step)
    /\ pc = EntryPc(call)
    /\ df_features = <<>>
    /\ X = <<>>
    /\ X_recent = <<>>
    /\ heap = <<>>
    /\ model = 0
    /\ current_data = <<>>
    /\ current_timestamp = 0
    /\ i = 0
    /\ future = <<>>
    /\ split = NoSplit
    /\ result = Pending
    /\ volatility = NotCalled
    /\ var_95 = NotCalled
    /\ var_99 = NotCalled
    /\ feature_table = NotCalled
    /\ raised = "none"
    /\ outputs = <<>>

-----------------------------------------------------------------------------
(* Actions *)

\* the risk calls skipped when there is no forecast
AfterTrainNeedsForecast ==
    IF call = "update_dashboard"
    THEN (IF result'.status = "value" THEN "volatility" ELSE "render")
    ELSE "done"

\* where control goes when train_model_and_predict returns
AfterTrain == IF call = "update_dashboard" THEN "volatility" ELSE "done"

\* where control goes when the three risk calls have returned
AfterRisk == IF call = "update_dashboard" THEN "render" ELSE "done"

\* the frame the risk functions get: df_display in update_dashboard
RiskFrame == IF call = "update_dashboard" THEN TailRows(series, MAX_DATA_POINTS) ELSE series

\* a direct call of create_features(series)
CreateFeatures ==
    /\ pc = "features"
    /\ feature_table' = Returned(create_features(series))
    /\ pc' = "done"
    /\ UNCHANGED <<series, call, df_features, X, X_recent, heap, model, current_data,
                   current_timestamp, i, future, split, result, volatility, var_95,
                   var_99, raised, outputs>>

\* update_dashboard, lines 487-499: load the data, give up when there is none
LoadData ==
    /\ pc = "load"
    /\ IF series = <<>>
       THEN /\ outputs' = [risk_metrics |-> "No data available",
                           prediction_metrics |-> "No prediction data available"]
            /\ pc' = "done"
       ELSE /\ outputs' = outputs
            /\ pc' = "train"
    /\ UNCHANGED <<series, call, df_features, X, X_recent, heap, model, current_data,
                   current_timestamp, i, future, split, result, volatility, var_95,
                   var_99, feature_table, raised>>

\* train_model_and_predict, lines 160-166: the two guards around
\* prepare_prediction_data
Prepare ==
    /\ pc = "train"
    /\ \E prep \in { IF series = <<>> \/ Len(series) < MIN_TRAIN_POINTS
                     THEN NoPrepared ELSE prepare_prediction_data(series) } :
           IF ~prep.ok
           THEN /\ result' = None
                /\ pc' = AfterTrain
                /\ UNCHANGED <<df_features, X, X_recent, current_timestamp>>
           ELSE /\ df_features' = prep.df_features
                /\ X' = prep.X
                /\ X_recent' = prep.X_recent
                /\ current_timestamp' = prep.last_timestamp
                /\ result' = result
                /\ pc' = "fit"
    /\ UNCHANGED <<series, call, heap, model, current_data, i, future, split,
                   volatility, var_95, var_99, feature_table, raised, outputs>>

\* lines 169-178: construct the model, fit it on the full training set, set
\* up the forecast loop
FitFull ==
    /\ pc = "fit"
    /\ heap' = Append(heap, Fitted(NewModel, RowIds(X)))
    /\ model' = Len(heap) + 1
    /\ future' = <<>>
    /\ current_data' = FeatureVector(X_recent[1].row)
    /\ i' = 0
    /\ pc' = "loop"
    /\ UNCHANGED <<series, call, df_features, X, X_recent, current_timestamp, split,
                   result, volatility, var_95, var_99, feature_table, raised, outputs>>

\* the day of the month left at the anchor's
AdvanceCalendarStaleDay(data, ts) ==
    [data EXCEPT !.hour = dt_hour(ts), !.dayofweek = dt_dayofweek(ts),
                 !.quarter = dt_quarter(ts), !.month = dt_month(ts),
                 !.dayofyear = dt_dayofyear(ts)]

\* the loop left after its first iterations
LoopDoneEarly(k) == k >= 1

\* for i in range(PREDICTION_HOURS): the loop is over
LoopDone(k) == k = PREDICTION_HOURS

\* lines 186-191: the calendar fields of current_data follow next_timestamp
AdvanceCalendar(data, ts) ==
    [data EXCEPT !.hour = dt_hour(ts), !.dayofweek = dt_dayofweek(ts),
                 !.quarter = dt_quarter(ts), !.month = dt_month(ts),
                 !.dayofyear = dt_dayofyear(ts), !.dayofmonth = dt_day(ts)]

\* lines 181-203: one iteration of the forecast loop
ForecastStep ==
    /\ pc = "loop"
    /\ i < PREDICTION_HOURS
    /\ LET next_timestamp == AddOneHour(current_timestamp)
           data == AdvanceCalendar(current_data, next_timestamp)
       IN  /\ current_data' = data
           /\ future' = Append(future, [Timestamp |-> next_timestamp,
                                        Predicted_Price |-> Predict(heap, model, data)])
           /\ current_timestamp' = next_timestamp
    /\ i' = i + 1
    /\ UNCHANGED <<series, call, pc, df_features, X, X_recent, heap, model, split,
                   result, volatility, var_95, var_99, feature_table, raised, outputs>>

\* lines 206-213: the loop is over; split the training set
SplitData ==
    /\ pc = "loop"
    /\ LoopDone(i)
    /\ IF Len(X) - TestSize(Len(X)) <= 0
       THEN \* train_test_split refuses an empty train set
            /\ raised' = "ValueError"
            /\ pc' = "done"
            /\ split' = split
       ELSE /\ split' \in Splits(X)
            /\ pc' = "refit"
            /\ raised' = raised
    /\ UNCHANGED <<series, call, df_features, X, X_recent, heap, model, current_data,
                   current_timestamp, i, future, result, volatility, var_95, var_99,
                   feature_table, outputs>>

\* line 214: model.fit(X_train, y_train)
Refit ==
    /\ pc = "refit"
    /\ LET tgt == RefitTarget(heap, model)
       IN  /\ heap' = [tgt.heap EXCEPT ![tgt.model] = Fitted(@, split.train)]
           /\ model' = tgt.model
    /\ pc' = "evaluate"
    /\ UNCHANGED <<series, call, df_features, X, X_recent, current_data,
                   current_timestamp, i, future, split, result, volatility, var_95,
                   var_99, feature_table, raised, outputs>>

\* lines 215-225: score the test rows and return
Evaluate ==
    /\ pc = "evaluate"
    /\ LET score == [model |-> model, fit |-> heap[model].fit, test |-> split.test]
       IN  result' = [status |-> "value",
                      predictions_df |-> future,
                      eval_metrics |->
                          [MAE |-> score, RMSE |-> score,
                           Feature_Importance |->
                               [model |-> model, fit |-> heap[model].fit,
                                keys |-> FEATURES]]]
    /\ pc' = AfterTrain
    /\ UNCHANGED <<series, call, df_features, X, X_recent, heap, model, current_data,
                   current_timestamp, i, future, split, volatility, var_95, var_99,
                   feature_table, raised, outputs>>

\* line 513, or a direct call: calculate_volatility(df) with window=14
CalculateVolatility ==
    /\ pc = "volatility"
    /\ volatility' = Returned(calculate_volatility(RiskFrame, RISK_WINDOW))
    /\ pc' = "var_95"
    /\ UNCHANGED <<series, call, df_features, X, X_recent, heap, model, current_data,
                   current_timestamp, i, future, split, result, var_95, var_99,
                   feature_table, raised, outputs>>

\* line 514: calculate_var(df, confidence=0.95)
CalculateVar95 ==
    /\ pc = "var_95"
    /\ var_95' = Returned(calculate_var(RiskFrame, 95, RISK_WINDOW))
    /\ pc' = "var_99"
    /\ UNCHANGED <<series, call, df_features, X, X_recent, heap, model, current_data,
                   current_timestamp, i, future, split, result, volatility, var_99,
                   feature_table, raised, outputs>>

\* line 515: calculate_var(df, confidence=0.99)
CalculateVar99 ==
    /\ pc = "var_99"
    /\ var_99' = Returned(calculate_var(RiskFrame, 99, RISK_WINDOW))
    /\ pc' = AfterRisk
    /\ UNCHANGED <<series, call, df_features, X, X_recent, heap, model, current_data,
                   current_timestamp, i, future, split, result, volatility, var_95,
                   feature_table, raised, outputs>>

\* lines 546-651: the risk card and the prediction card
Render ==
    /\ pc = "render"
    /\ outputs' =
         [risk_metrics |-> [volatility |-> volatility.value, var_95 |-> var_95.value,
                            var_99 |-> var_99.value],
          prediction_metrics |->
              IF result.status = "value" /\ result.predictions_df # <<>>
              THEN [next_day_prediction |->
                        result.predictions_df[Len(result.predictions_df)].Predicted_Price,
                    MAE |-> result.eval_metrics.MAE,
                    RMSE |-> result.eval_metrics.RMSE,
                    Feature_Importance |-> result.eval_metrics.Feature_Importance]
              ELSE "insufficient data"]
    /\ pc' = "done"
    /\ UNCHANGED <<series, call, df_features, X, X_recent, heap, model, current_data,
                   current_timestamp, i, future, split, result, volatility, var_95,
                   var_99, feature_table, raised>>

Next ==
    \/ CreateFeatures
    \/ LoadData
    \/ Prepare
    \/ FitFull
    \/ ForecastStep
    \/ SplitData
    \/ Refit
    \/ Evaluate
    \/ CalculateVolatility
    \/ CalculateVar95
    \/ CalculateVar99
    \/ Render

Spec == Init /\ [][Next]_vars

-----------------------------------------------------------------------------
(* create_features on hourly series whose price rises by one per hour *)

MaxRampLen == 60
RampFirsts == {100, 40}

RampSeries(n, first) ==
    [k \in 1..n |-> [Timestamp |-> 20086 * MINUTES_PER_DAY + (k - 1) * MINUTES_PER_HOUR,
                     Price |-> first + k - 1]]

InitRamp ==
    /\ \E n \in 0..MaxRampLen, first \in RampFirsts : series = RampSeries(n, first)
    /\ call = "create_features"
    /\ pc = EntryPc(call)
    /\ df_features = <<>>
    /\ X = <<>>
    /\ X_recent = <<>>
    /\ heap = <<>>
    /\ model = 0
    /\ current_data = <<>>
    /\ current_timestamp = 0
    /\ i = 0
    /\ future = <<>>
    /\ split = NoSplit
    /\ result = Pending
    /\ volatility = NotCalled
    /\ var_95 = NotCalled
    /\ var_99 = NotCalled
    /\ feature_table = NotCalled
    /\ raised = "none"
    /\ outputs = <<>>

NextRamp == CreateFeatures

SpecRamp == InitRamp /\ [][NextRamp]_vars

-----------------------------------------------------------------------------
(* Properties *)

N == Len(series)

FeaturesReturned == call = "create_features" /\ pc = "done"
RiskReturned == call = "compute_risk" /\ pc = "done"
TrainReturned == result.status # "pending"

AllFinite(row) == \A v \in FloatCells(row) : IsFinite(v)

\* C1: on a series of n >= 25 positive prices create_features returns n - 24
\* rows, the rows of positions 24 .. n-1 in input order, every cell defined.
C1_RowCount ==
    (FeaturesReturned /\ N >= MAX_LAG + 1) =>
        /\ feature_table.called
        /\ Len(feature_table.value) = N - MAX_LAG
        /\ \A j \in 1..Len(feature_table.value) :
              /\ feature_table.value[j].idx = MAX_LAG + j - 1
              /\ feature_table.value[j].Timestamp = series[MAX_LAG + j].Timestamp
              /\ feature_table.value[j].Price = series[MAX_LAG + j].Price
              /\ AllFinite(feature_table.value[j])

C1_Witness ==
    /\ FeaturesReturned
    /\ N >= MAX_LAG + 3
    /\ Len(feature_table.value) = N - MAX_LAG
    /\ \E k \in 1..N : series[k].Price # series[1].Price

C3_Unavailable ==
    (N < 50) =>
        /\ heap = <<>> /\ model = 0 /\ raised = "none"
        /\ pc \notin {"fit", "loop", "refit", "evaluate"}
        /\ TrainReturned => result = None
        /\ (call = "train_model_and_predict" /\ pc = "done") => result = None

C3_Witness ==
    call = "train_model_and_predict" /\ pc = "done" /\ N = 49 /\ result = None

\* C4: on a series of at least 50 points train_model_and_predict returns
\* exactly 24 forecast points, one hour apart, the first one hour after the
\* last timestamp of the series.
C4_HourlyForecast ==
    (N >= 50 /\ (TrainReturned \/ (call = "train_model_and_predict" /\ pc = "done"))) =>
        /\ result.status = "value"
        /\ Len(result.predictions_df) = 24
        /\ \A k \in 1..Len(result.predictions_df) :
              result.predictions_df[k].Timestamp = series[N].Timestamp + 60 * k

C4_Witness ==
    /\ call = "train_model_and_predict" /\ pc = "done" /\ N >= 50
    /\ result.status = "value"
    /\ Len(result.predictions_df) = 24
    /\ dt_year(result.predictions_df[24].Timestamp) # dt_year(series[N].Timestamp)

IsConstant(df) == \A k \in 1..Len(df) : df[k].Price = df[1].Price

\* C5 as stated: on a constant series of n >= 2 points the volatility is the
\* number 0 and both VaR values are 0.
C5_ConstantSeriesZeroRisk ==
    (RiskReturned /\ N >= 2 /\ IsConstant(series)) =>
        (volatility.value = ZeroVol /\ var_95.value = Zero /\ var_99.value = Zero)

\* the trailing cnt elements of a sequence
LastOf(col, cnt) == SubSeq(col, Len(col) - cnt + 1, Len(col))

\* sqrt(365) times the standard deviation of the trailing `window` returns, or
\* of all the returns when there are fewer, carried by its square
TrailingVolatility(df, window) ==
    [sq |-> RatMul(SampleVar(LastOf(DropNaCol(Returns(df)),
                                    Min(window, Len(df) - 1))),
                   IntRat(365))]

\* C6 as stated: for n >= 2 the volatility is a defined number, sqrt(365)
\* times the standard deviation of the trailing min(window, available) returns.
C6_VolatilityOfTrailingReturns ==
    (RiskReturned /\ N >= 2) =>
        /\ IsFinite(volatility.value.sq)
        /\ volatility.value = TrailingVolatility(series, 14)

\* C7 as stated: VaR is 0 whenever the series has at most `window` points.
C7_VarZeroBelowWindowReturns ==
    (RiskReturned /\ N <= 14) => (var_95.value = Zero /\ var_99.value = Zero)

\* the (1 - c) percentile of the trailing `window` returns, as a non-negative
\* percentage
TrailingVar(df, confidence, window) ==
    RatAbs(RatMul(Percentile(LastOf(DropNaCol(Returns(df)), window),
                             Rat(100 - confidence, 1)),
                  IntRat(100)))

\* C8 as stated: with at least `window` returns, VaR is computed from the
\* trailing `window` returns only.
C8_VarOfTrailingWindow ==
    (RiskReturned /\ N >= 14 + 1) =>
        /\ var_95.value = TrailingVar(series, 95, 14)
        /\ var_99.value = TrailingVar(series, 99, 14)

\* C9: on fewer than 2 points the three risk values are 0 and nothing is
\* raised.
C9_ZeroSnapshot ==
    (RiskReturned /\ N < 2) =>
        /\ volatility = Returned(ZeroVol)
        /\ var_95 = Returned(Zero)
        /\ var_99 = Returned(Zero)
        /\ raised = "none"

C9_Witness == RiskReturned /\ N = 1 /\ volatility = Returned(ZeroVol)

Forecasters == { result.predictions_df[k].Predicted_Price.model :
                   k \in 1..Len(result.predictions_df) }

\* C10 as stated: the object fitted on the train split is never the object
\* that forecast, which still holds its full-set fit after the evaluation.
C10_FreshEvaluationModel ==
    (result.status = "value") =>
        /\ result.eval_metrics.MAE.model \notin Forecasters
        /\ \A m \in Forecasters : heap[m].fit = RowIds(X)

\* C10 amended: the evaluation refits the very object that forecast, and no
\* other is constructed; every forecast point was predicted under the
\* full-set fit, and after the evaluation the object holds the train-split fit.
C10_SameModelRefitted ==
    (result.status = "value") =>
        /\ Len(heap) = 1
        /\ Forecasters = {model}
        /\ result.eval_metrics.MAE.model = model
        /\ \A k \in 1..Len(result.predictions_df) :
              result.predictions_df[k].Predicted_Price.fit = RowIds(X)
        /\ result.eval_metrics.MAE.fit = split.train
        /\ heap[model].fit = split.train
        /\ split.train # RowIds(X)

C10_Witness ==
    /\ result.status = "value"
    /\ Len(result.predictions_df) = 24
    /\ heap[model].fit = split.train
    /\ Cardinality(split.train) >= 2

IsRamp100To159 ==
    Len(series) = 60 /\ \A k \in 1..Len(series) : series[k].Price = 99 + k

\* C11 as stated: on the 60 hourly points rising from 100 to 159
\* create_features yields 36 rows; the last row has lag_1h = 158 and
\* rolling_mean_6h = 154.5.
C11_RampExample ==
    (FeaturesReturned /\ IsRamp100To159) =>
        /\ Len(feature_table.value) = 36
        /\ feature_table.value[Len(feature_table.value)].lag[1] = [n |-> 158, d |-> 1]
        /\ feature_table.value[Len(feature_table.value)].rolling_mean_6h = [n |-> 309, d |-> 2]

\* the sum of the prices at positions a .. b (1-based) of the series
RECURSIVE PriceSum(_, _)
PriceSum(a, b) == IF a > b THEN 0 ELSE series[a].Price + PriceSum(a + 1, b)

\* C11 amended: on that series create_features yields 36 rows; the last row
\* has lag_1h = 158 and rolling_mean_6h = 156.5, the mean of the last 6
\* prices 154 .. 159.
C11_RampExampleMean ==
    (FeaturesReturned /\ IsRamp100To159) =>
        /\ Len(feature_table.value) = 36
        /\ feature_table.value[Len(feature_table.value)].lag[1] = [n |-> 158, d |-> 1]
        /\ feature_table.value[Len(feature_table.value)].rolling_mean_6h = [n |-> 313, d |-> 2]
        /\ 2 * PriceSum(55, 60) = 6 * 313

C11_Witness ==
    /\ FeaturesReturned /\ IsRamp100To159
    /\ Len(feature_table.value) = 36
    /\ feature_table.value[36].Price = 159

DashboardReturned == call = "update_dashboard" /\ pc = "done"

RiskComputedAndReturned ==
    /\ volatility.called /\ var_95.called /\ var_99.called
    /\ outputs.risk_metrics = [volatility |-> volatility.value,
                               var_95 |-> var_95.value,
                               var_99 |-> var_99.value]
    /\ outputs.risk_metrics.volatility = calculate_volatility(series, 14)
    /\ outputs.risk_metrics.var_95 = calculate_var(series, 95, 14)
    /\ outputs.risk_metrics.var_99 = calculate_var(series, 99, 14)

\* C12 as stated: in a refresh on any loaded series for which
\* train_model_and_predict is unavailable (fewer than 50 points), the three
\* risk metrics are computed and returned.
C12_RiskDespiteNoForecast ==
    (DashboardReturned /\ N < 50) => RiskComputedAndReturned

\* C12 amended: the same for every non-empty loaded series; on the empty
\* series the refresh returns before either stage runs.
C12_RiskDespiteNoForecastNonEmpty ==
    /\ (DashboardReturned /\ N < 50 /\ N >= 1) =>
          (result = None /\ RiskComputedAndReturned
             /\ outputs.prediction_metrics = "insufficient data")
    /\ (DashboardReturned /\ N = 0) =>
          (result = Pending /\ ~volatility.called /\ ~var_95.called /\ ~var_99.called)

C12_Witness ==
    /\ DashboardReturned /\ N = 20 /\ ~IsConstant(series)
    /\ result = None
    /\ RiskComputedAndReturned
    /\ outputs.risk_metrics.var_95 # Zero

\* the price at 0-based series position p
PriceAtPos(p) == series[p + 1].Price

\* the quotient a / b of two integers, b > 0, in lowest terms
Quot(a, b) == [n |-> a \div GCD(Abs(a), b), d |-> b \div GCD(Abs(a), b)]

\* what C13 says of the row built at 0-based series position p
RowAsSpecified(row, p) ==
    /\ \A k \in 1..24 : row.lag[k] = [n |-> PriceAtPos(p - k), d |-> 1]
    /\ row.rolling_mean_6h = Quot(PriceSum(p - 4, p + 1), 6)
    /\ row.rolling_mean_12h = Quot(PriceSum(p - 10, p + 1), 12)
    /\ row.rolling_mean_24h = Quot(PriceSum(p - 22, p + 1), 24)
    /\ row.price_change_1h = Quot(PriceAtPos(p) - PriceAtPos(p - 1), PriceAtPos(p - 1))
    /\ row.price_change_12h = Quot(PriceAtPos(p) - PriceAtPos(p - 12), PriceAtPos(p - 12))
    /\ row.price_change_24h = Quot(PriceAtPos(p) - PriceAtPos(p - 24), PriceAtPos(p - 24))

\* C13: in every row create_features builds at position i >= 24, lag_kh is
\* price[i-k] for k in 1..24, rolling_mean_w is the mean of price[i-w+1..i] for
\* w in {6, 12, 24}, and price_change_p is (price[i] - price[i-p]) / price[i-p]
\* for p in {1, 12, 24}.
C13_FeatureValues ==
    FeaturesReturned =>
        \A j \in 1..Len(feature_table.value) :
            /\ feature_table.value[j].idx >= 24
            /\ RowAsSpecified(feature_table.value[j], feature_table.value[j].idx)

C13_Witness ==
    /\ FeaturesReturned /\ N >= 27
    /\ \E j \in 1..Len(feature_table.value) :
          /\ feature_table.value[j].price_change_1h = [n |-> -1, d |-> 2]
          /\ feature_table.value[j].lag[1] = [n |-> 2, d |-> 1]
          /\ feature_table.value[j].rolling_mean_6h = [n |-> 7, d |-> 6]
          /\ RowAsSpecified(feature_table.value[j], feature_table.value[j].idx)

-----------------------------------------------------------------------------

Trained == X # <<>>

\* the 0-based series positions that have 24 points before and 24 after them
TrainablePositions == { p \in 0..(N - 1) : p >= 24 /\ p + 24 <= N - 1 }

\* C14: the training set is exactly the feature rows at positions i with
\* i + 24 <= n - 1, each with target price[i + 24]; the 24 most recent
\* feature rows are left out, and the anchor is the row at position n - 1,
\* which is no training example.
C14_TrainingSet ==
    Trained =>
        /\ RowIds(X) = TrainablePositions
        /\ Len(X) = Cardinality(TrainablePositions)
        /\ \A j \in 1..Len(X) :
              /\ X[j].target = [n |-> PriceAtPos(X[j].row.idx + 24), d |-> 1]
              /\ j > 1 => X[j - 1].row.idx < X[j].row.idx
        /\ \A p \in (N - 24)..(N - 1) : p \notin RowIds(X)
        /\ Len(X_recent) = 1
        /\ X_recent[1].row.idx = N - 1
        /\ X_recent[1].row.Timestamp = series[N].Timestamp
        /\ N - 1 \notin RowIds(X)

C14_Witness ==
    /\ pc = "fit" /\ N = 51 /\ Len(X) = 3
    /\ \E j, k \in 1..Len(X) : X[j].target # X[k].target
    /\ X_recent[1].row.idx = 50

CalendarOf(ts) ==
    [hour |-> dt_hour(ts), dayofweek |-> dt_dayofweek(ts), quarter |-> dt_quarter(ts),
     month |-> dt_month(ts), dayofyear |-> dt_dayofyear(ts), dayofmonth |-> dt_day(ts)]

CalendarFields == {"hour", "dayofweek", "quarter", "month", "dayofyear", "dayofmonth"}

\* the anchor vector with its six calendar fields replaced by those of c
Frozen(anchor, c) ==
    [anchor EXCEPT !.hour = c.hour, !.dayofweek = c.dayofweek, !.quarter = c.quarter,
                   !.month = c.month, !.dayofyear = c.dayofyear,
                   !.dayofmonth = c.dayofmonth]

FrozenSteps(anchor, t0) ==
    \A k \in 1..Len(future) :
        /\ future[k].Timestamp = t0 + 60 * k
        /\ future[k].Predicted_Price.x = Frozen(anchor, CalendarOf(future[k].Timestamp))

\* C15: at every step of the forecast loop the vector given to the model has
\* the six calendar fields of the step's own timestamp and, in every other
\* field, the value of the anchor row.
C15_FrozenFeatures ==
    future # <<>> =>
        /\ CalendarFields \subseteq DOMAIN FeatureVector(X_recent[1].row)
        /\ FrozenSteps(FeatureVector(X_recent[1].row), X_recent[1].row.Timestamp)

C15_Witness ==
    /\ Len(future) = 24
    /\ future[24].Predicted_Price.x.dayofmonth # X_recent[1].row.dayofmonth
    /\ future[24].Predicted_Price.x.month # X_recent[1].row.month
    /\ future[24].Predicted_Price.x.price_change_1h = X_recent[1].row.price_change_1h
    /\ X_recent[1].row.price_change_1h # Zero

\* C16: on n >= 50 positive prices the training set has n - 48 >= 2
\* examples, the empty-training-set return is never taken, and the split
\* gets a non-empty train part and a non-empty test part.
C16_TrainingSetSize ==
    (N >= 50) =>
        /\ result # None
        /\ raised = "none"
        /\ (pc \in {"fit", "loop", "refit", "evaluate"} \/ result.status = "value") =>
              (Len(X) = N - 48 /\ Len(X) >= 2)
        /\ (pc \in {"refit", "evaluate"} \/ result.status = "value") =>
              /\ split.train # {} /\ split.test # {}
              /\ split.train \cup split.test = RowIds(X)
              /\ split.train \cap split.test = {}
        /\ (call = "train_model_and_predict" /\ pc = "done") => result.status = "value"

C16_Witness ==
    /\ pc = "evaluate" /\ N = 50 /\ Len(X) = 2
    /\ Cardinality(split.train) = 1 /\ Cardinality(split.test) = 1

\* C17: the 24 forecasts are all predicted under the full-set fit, before the
\* refit on the train split; MAE, RMSE and the importances are produced after
\* the refit, from the train-split fit.
C17_ForecastBeforeRefit ==
    /\ \A k \in 1..Len(future) : future[k].Predicted_Price.fit = RowIds(X)
    /\ pc = "loop" => (result = Pending /\ heap[model].fit = RowIds(X) /\ split = NoSplit)
    /\ pc = "refit" =>
          (result = Pending /\ Len(future) = 24 /\ heap[model].fit = RowIds(X))
    /\ pc = "evaluate" =>
          (result = Pending /\ Len(future) = 24 /\ heap[model].fit = split.train)
    /\ result.status = "value" =>
          /\ result.predictions_df = future /\ Len(future) = 24
          /\ result.eval_metrics.MAE.fit = split.train
          /\ result.eval_metrics.RMSE.fit = split.train
          /\ result.eval_metrics.Feature_Importance.fit = split.train
          /\ split.train # RowIds(X)

C17_Witness ==
    /\ DashboardReturned
    /\ result.status = "value"
    /\ outputs.prediction_metrics.MAE.fit = split.train
    /\ outputs.prediction_metrics.next_day_prediction.fit = RowIds(X)
    /\ split.train # RowIds(X)

====
